---- MODULE Spec2Model ----
(***************************************************************************)
(* Draw-state engine of draw.cpp: the top-level menu, the roster store of  *)
(* mode A (all / pool / history) and the range store of mode B             *)
(* (N / noRepeat / pool / history), driven by the menu operations.         *)
(*                                                                         *)
(* A name is a sequence of one-character strings, so that trim() works on  *)
(* characters.  Values drawn from the mt19937 generator are inputs of the  *)
(* draw actions.  Both mode functions call their locals pool and history;  *)
(* here the range store's are rpool and rhistory.                          *)
(***************************************************************************)
EXTENDS Integers, Sequences, FiniteSets, TLC

\* ------------------------------------------------------------- bounds
\* Most raw lines typed or read from a file in one add operation.
MaxLines == 2
\* Cap on the length of a history that the code lets grow without limit.
MaxHist == 3
\* Largest N entered at the "set N" prompt.
MaxN == 3

\* ------------------------------------------------------------- inputs
\* Raw lines of text, before trimming.
RawLines ==
  { <<>>, <<" ", "\t">>, <<"a">>, <<" ", "a", " ">>, <<"\t", "b", "\r">>,
    <<"a", " ", "b">> }

\* Sequences of at most n elements of S.
SeqUpTo(S, n) == UNION { [1..k -> S] : k \in 0..n }

\* Integers typed at a menu prompt.
Choices == 0..7

\* Integers typed at the "N" prompt.
NValues == (0 - 1)..MaxN

\* ------------------------------------------------------------- helpers
Whitespace == {" ", "\t", "\r", "\n"}

\* Index of the first character of s at or after i that is not whitespace;
\* 0 stands for string::npos.
RECURSIVE find_first_not_of(_, _)
find_first_not_of(s, i) ==
  IF i > Len(s) THEN 0
  ELSE IF s[i] \notin Whitespace THEN i
  ELSE find_first_not_of(s, i + 1)

\* Index of the last character of s at or before i that is not whitespace.
RECURSIVE find_last_not_of(_, _)
find_last_not_of(s, i) ==
  IF i < 1 THEN 0
  ELSE IF s[i] \notin Whitespace THEN i
  ELSE find_last_not_of(s, i - 1)

trim(s) ==
  LET b == find_first_not_of(s, 1)
  IN  IF b = 0 THEN <<>>
      ELSE LET e == find_last_not_of(s, Len(s))
           IN  SubSeq(s, b, e)

\* dedup_loop with a slip: x is compared with the last element of out only.
RECURSIVE dedup_loop_adjacent(_, _)
dedup_loop_adjacent(v, out) ==
  IF v = <<>> THEN out
  ELSE LET x == Head(v)
           seen == out # <<>> /\ out[Len(out)] = x
       IN  dedup_loop_adjacent(Tail(v), IF seen THEN out ELSE Append(out, x))

\* The loop of dedup_preserve_order: out collects first occurrences.
RECURSIVE dedup_loop(_, _)
dedup_loop(v, out) ==
  IF v = <<>> THEN out
  ELSE LET x == Head(v)
           seen == \E j \in 1..Len(out) : out[j] = x
       IN  dedup_loop(Tail(v), IF seen THEN out ELSE Append(out, x))

\* dedup_preserve_order with a slip: the last occurrence of each element is
\* the one kept.
dedup_keep_last(v) ==
  LET rev(s) == [i \in 1..Len(s) |-> s[Len(s) + 1 - i]]
  IN  rev(dedup_loop(rev(v), <<>>))

dedup_preserve_order(v) == dedup_loop(v, <<>>)

\* erase with an off-by-one slip: the element after position idx goes.
erase_next(v, idx) == SubSeq(v, 1, idx + 1) \o SubSeq(v, idx + 3, Len(v))

\* What an add does to all, and to pool: each accepted line is pushed onto
\* v, then v is deduplicated.
add_many(v, accepted) == dedup_preserve_order(v \o accepted)

\* vector::erase(begin() + idx), idx counted from 0.
erase(v, idx) == SubSeq(v, 1, idx) \o SubSeq(v, idx + 2, Len(v))

\* Manual input: the trimmed lines before the first one that trims to empty.
RECURSIVE manual_lines(_)
manual_lines(lines) ==
  IF lines = <<>> THEN <<>>
  ELSE LET line == trim(Head(lines))
       IN  IF line = <<>> THEN <<>>
           ELSE <<line>> \o manual_lines(Tail(lines))

\* Whether the getline loop of manual input meets its blank line in lines.
manual_terminated(lines) == \E i \in 1..Len(lines) : trim(lines[i]) = <<>>

\* File input: the trimmed lines, those that trim to empty skipped.
RECURSIVE file_lines(_)
file_lines(lines) ==
  IF lines = <<>> THEN <<>>
  ELSE LET line == trim(Head(lines))
       IN  IF line = <<>> THEN file_lines(Tail(lines))
           ELSE <<line>> \o file_lines(Tail(lines))

\* What the getline loop of manual input can end with: the names accepted
\* and whether it stopped at the end of input (eof) rather than at a blank
\* line.  Standard input holds some raw lines, then a blank line, or, with
\* e, nothing more.
ManualReads ==
  { [accepted |-> manual_lines(l), eof |-> ~manual_terminated(l) /\ e] :
      l \in SeqUpTo(RawLines, MaxLines), e \in BOOLEAN }

\* What the file-name prompt and the getline loop over the file can end
\* with: no name read (end of input), a file that does not open, or the
\* names accepted from the file's lines.
FileReads ==
  { [nameOk |-> FALSE, openOk |-> FALSE, accepted |-> <<>>],
    [nameOk |-> TRUE, openOk |-> FALSE, accepted |-> <<>>] }
  \cup { [nameOk |-> TRUE, openOk |-> TRUE, accepted |-> file_lines(l)] :
            l \in SeqUpTo(RawLines, MaxLines) }

\* operator<< of an unsigned integer: its decimal digits.
RECURSIVE to_string(_)
to_string(n) ==
  LET digit == <<"0", "1", "2", "3", "4", "5", "6", "7", "8", "9">>
  IN  IF n < 10 THEN <<digit[n + 1]>>
      ELSE to_string(n \div 10) \o <<digit[(n % 10) + 1]>>

\* csv_loop with a slip: the index is written as i, not i + 1.
RECURSIVE csv_loop_zero_based(_, _)
csv_loop_zero_based(h, i) ==
  IF i >= Len(h) THEN <<>>
  ELSE to_string(i) \o <<",">> \o h[i + 1] \o <<"\n">>
         \o csv_loop_zero_based(h, i + 1)

\* The loop of save_history_to_file from index i (counted from 0): the
\* characters it streams to fout.
RECURSIVE csv_loop(_, _)
csv_loop(h, i) ==
  IF i >= Len(h) THEN <<>>
  ELSE to_string(i + 1) \o <<",">> \o h[i + 1] \o <<"\n">>
         \o csv_loop(h, i + 1)

\* What save_history_to_file writes for history h.
csv_rows(h) == csv_loop(h, 0)

\* fresh_pool with an off-by-one slip: the loop runs over 0..n-1.
fresh_pool_from_zero(n) == IF n <= 0 THEN <<>> ELSE [i \in 1..n |-> i - 1]

\* The pool reset_pool builds for N = n.
fresh_pool(n) == IF n <= 0 THEN <<>> ELSE [i \in 1..n |-> i]

\* ------------------------------------------------------------- state
VARIABLES
  pc,        \* where the dispatcher is: "top", "A", "B" or "exit"
  cinFail,   \* cin has failed (malformed number or end of input)
  op,        \* the menu choice last read
  all,       \* mode A: the roster
  pool,      \* mode A: names still to draw
  history,   \* mode A: names drawn
  N,         \* mode B
  noRepeat,  \* mode B
  rpool,     \* mode B: pool
  rhistory,  \* mode B: history
  msg,       \* the kind of message the last operation displayed
  winner,    \* mode A: the name the last operation drew, <<>> if none
  result,    \* mode B: the number the last operation drew, 0 if none
  fout,      \* the characters the last operation wrote to its output file
  foutOpen   \* whether the last operation's output file opened

listStore == <<all, pool, history>>
rangeStore == <<N, noRepeat, rpool, rhistory>>
vars == <<pc, cinFail, op, all, pool, history, N, noRepeat, rpool, rhistory,
          msg, winner, result, fout, foutOpen>>

\* FreshList with the locals declared static: they keep their values.
FreshList_static == UNCHANGED <<all, pool, history>>

\* The locals of mode_list_draw as declared.
FreshList == all' = <<>> /\ pool' = <<>> /\ history' = <<>>

\* The locals of mode_range_draw as declared.
FreshRange == N' = 0 /\ noRepeat' = TRUE /\ rpool' = <<>> /\ rhistory' = <<>>

\* An operation that displays m and neither draws nor writes a file.
Shown(m) ==
  msg' = m /\ winner' = <<>> /\ result' = 0 /\ fout' = <<>> /\ foutOpen' = FALSE

Init ==
  /\ pc = "top" /\ cinFail = FALSE /\ op = 0
  /\ all = <<>> /\ pool = <<>> /\ history = <<>>
  /\ N = 0 /\ noRepeat = TRUE /\ rpool = <<>> /\ rhistory = <<>>
  /\ msg = "None" /\ winner = <<>> /\ result = 0
  /\ fout = <<>> /\ foutOpen = FALSE

\* cin >> op: a choice v is read unless cin has failed or fails now (ok false),
\* and then 0 is stored.
ReadOp(ok, v) ==
  /\ op' = IF cinFail \/ ~ok THEN 0 ELSE v
  /\ cinFail' = (cinFail \/ ~ok)

\* ------------------------------------------------------------- main menu
MainExit ==
  /\ pc = "top"
  /\ \E ok \in BOOLEAN : ReadOp(ok, 0)
  /\ pc' = "exit"
  /\ Shown("Exit")
  /\ UNCHANGED <<listStore, rangeStore>>

EnterModeA ==
  /\ pc = "top" /\ ~cinFail
  /\ ReadOp(TRUE, 1)
  /\ pc' = "A"
  /\ FreshList
  /\ Shown("None")
  /\ UNCHANGED rangeStore

EnterModeB ==
  /\ pc = "top" /\ ~cinFail
  /\ ReadOp(TRUE, 2)
  /\ pc' = "B"
  /\ FreshRange
  /\ Shown("None")
  /\ UNCHANGED listStore

MainInvalid ==
  /\ pc = "top" /\ ~cinFail
  /\ \E v \in Choices \ {0, 1, 2} : ReadOp(TRUE, v)
  /\ Shown("InvalidInput")
  /\ UNCHANGED <<pc, listStore, rangeStore>>

\* ------------------------------------------------------------- mode A
\* The values animated_pick_index can return for pool p.
pick_index(p) == 0..(Len(p) - 1)

\* op == 0, or the read of op failed: return to the main menu.
ListBack ==
  /\ pc = "A"
  /\ \E ok \in BOOLEAN : ReadOp(ok, 0)
  /\ pc' = "top"
  /\ FreshList
  /\ Shown("None")
  /\ UNCHANGED rangeStore

\* op == 1.
ListManualAdd(rd) ==
  /\ pc = "A" /\ ~cinFail
  /\ op' = 1
  /\ cinFail' = rd.eof
  /\ all' = add_many(all, rd.accepted)
  /\ pool' = add_many(pool, rd.accepted)
  /\ Shown("Added")
  /\ UNCHANGED <<pc, history, rangeStore>>

\* op == 2.
ListLoadFile(rd) ==
  /\ pc = "A" /\ ~cinFail
  /\ op' = 2
  /\ cinFail' = ~rd.nameOk
  /\ IF rd.nameOk /\ rd.openOk
       THEN /\ all' = add_many(all, rd.accepted)
            /\ pool' = add_many(pool, rd.accepted)
            /\ Shown("Loaded")
       ELSE /\ UNCHANGED <<all, pool>>
            /\ Shown("IoError")
  /\ UNCHANGED <<pc, history, rangeStore>>

\* ListDraw with pool.erase left out.
ListDraw_no_erase ==
  /\ pc = "A" /\ ~cinFail
  /\ op' = 3
  /\ IF pool = <<>>
       THEN /\ Shown("EmptyPool")
            /\ UNCHANGED listStore
       ELSE /\ Len(history) < MaxHist
            /\ \E idx \in pick_index(pool) :
                 /\ winner' = pool[idx + 1]
                 /\ history' = Append(history, pool[idx + 1])
            /\ msg' = "Drawn"
            /\ result' = 0 /\ fout' = <<>> /\ foutOpen' = FALSE
            /\ UNCHANGED <<all, pool>>
  /\ UNCHANGED <<pc, cinFail, rangeStore>>

\* op == 3.
ListDraw ==
  /\ pc = "A" /\ ~cinFail
  /\ op' = 3
  /\ IF pool = <<>>
       THEN /\ Shown("EmptyPool")
            /\ UNCHANGED listStore
       ELSE /\ Len(history) < MaxHist
            /\ \E idx \in pick_index(pool) :
                 /\ winner' = pool[idx + 1]
                 /\ pool' = erase(pool, idx)
                 /\ history' = Append(history, pool[idx + 1])
            /\ msg' = "Drawn"
            /\ result' = 0 /\ fout' = <<>> /\ foutOpen' = FALSE
            /\ UNCHANGED all
  /\ UNCHANGED <<pc, cinFail, rangeStore>>

\* op == 4.  t is the list to show; a failed read of t stores 0.
ListView(ok, t) ==
  /\ pc = "A" /\ ~cinFail
  /\ op' = 4
  /\ cinFail' = ~ok
  /\ IF ~ok \/ t = 0 THEN Shown("None") ELSE Shown("Viewed")
  /\ UNCHANGED <<pc, listStore, rangeStore>>

\* ListReset with history.clear() left out.
ListReset_keeps_history ==
  /\ pc = "A" /\ ~cinFail
  /\ op' = 5
  /\ pool' = all
  /\ Shown("Reset")
  /\ UNCHANGED <<pc, cinFail, all, history, rangeStore>>

\* op == 5.
ListReset ==
  /\ pc = "A" /\ ~cinFail
  /\ op' = 5
  /\ pool' = all
  /\ history' = <<>>
  /\ Shown("Reset")
  /\ UNCHANGED <<pc, cinFail, all, rangeStore>>

\* op == 6.  nameOk: a file name was read; openOk: the ofstream opens.
\* save_history_to_file returns nothing, and the caller displays the same
\* message whether or not the file opened.
ListExport(nameOk, openOk) ==
  /\ pc = "A" /\ ~cinFail
  /\ op' = 6
  /\ cinFail' = ~nameOk
  /\ foutOpen' = (nameOk /\ openOk)
  /\ fout' = IF nameOk /\ openOk THEN csv_rows(history) ELSE <<>>
  /\ msg' = "Exported"
  /\ winner' = <<>> /\ result' = 0
  /\ UNCHANGED <<pc, listStore, rangeStore>>

\* Any other op.
ListInvalid ==
  /\ pc = "A" /\ ~cinFail
  /\ \E v \in Choices \ (0..6) : ReadOp(TRUE, v)
  /\ Shown("InvalidInput")
  /\ UNCHANGED <<pc, listStore, rangeStore>>

\* ------------------------------------------------------------- mode B
\* reset_pool with history.clear() left out.
reset_pool_keeps_history(n) ==
  /\ rpool' = fresh_pool(n)
  /\ rhistory' = rhistory

\* The lambda reset_pool, called when N = n.
reset_pool(n) ==
  /\ rpool' = fresh_pool(n)
  /\ rhistory' = <<>>

\* The values animated_pick_number can return for N = n.
pick_number(n) == 1..n

\* op == 0, or the read of op failed: return to the main menu.
RangeBack ==
  /\ pc = "B"
  /\ \E ok \in BOOLEAN : ReadOp(ok, 0)
  /\ pc' = "top"
  /\ FreshRange
  /\ Shown("None")
  /\ UNCHANGED listStore

\* RangeSetN with a slip: a new N rebuilds the pool and keeps history.
RangeSetN_keeps_history(ok, n) ==
  /\ pc = "B" /\ ~cinFail
  /\ op' = 1
  /\ cinFail' = ~ok
  /\ LET v == IF ok THEN n ELSE 0
     IN  IF v <= 0
           THEN /\ N' = 0
                /\ rpool' = <<>>
                /\ rhistory' = <<>>
                /\ Shown("DomainError")
           ELSE /\ N' = v
                /\ rpool' = fresh_pool(v)
                /\ rhistory' = rhistory
                /\ Shown("SetN")
  /\ UNCHANGED <<pc, noRepeat, listStore>>

\* op == 1.  cin >> N stores n, or 0 when the read fails.
RangeSetN(ok, n) ==
  /\ pc = "B" /\ ~cinFail
  /\ op' = 1
  /\ cinFail' = ~ok
  /\ LET v == IF ok THEN n ELSE 0
     IN  IF v <= 0
           THEN /\ N' = 0
                /\ rpool' = <<>>
                /\ rhistory' = <<>>
                /\ Shown("DomainError")
           ELSE /\ N' = v
                /\ reset_pool(v)
                /\ Shown("SetN")
  /\ UNCHANGED <<pc, noRepeat, listStore>>

\* RangeToggle with the call of reset_pool left out.
RangeToggle_no_reset ==
  /\ pc = "B" /\ ~cinFail
  /\ op' = 2
  /\ noRepeat' = ~noRepeat
  /\ Shown("Toggled")
  /\ UNCHANGED <<pc, cinFail, N, rpool, rhistory, listStore>>

\* RangeToggle with reset_pool called in both directions.
RangeToggle_always_resets ==
  /\ pc = "B" /\ ~cinFail
  /\ op' = 2
  /\ noRepeat' = ~noRepeat
  /\ reset_pool(N)
  /\ Shown("Toggled")
  /\ UNCHANGED <<pc, cinFail, N, listStore>>

\* op == 2.
RangeToggle ==
  /\ pc = "B" /\ ~cinFail
  /\ op' = 2
  /\ noRepeat' = ~noRepeat
  /\ IF ~noRepeat THEN reset_pool(N) ELSE UNCHANGED <<rpool, rhistory>>
  /\ Shown("Toggled")
  /\ UNCHANGED <<pc, cinFail, N, listStore>>

\* RangeDraw with the N <= 0 guard left out.
RangeDraw_no_N_guard ==
  /\ pc = "B" /\ ~cinFail
  /\ op' = 3
  /\ IF noRepeat
       THEN IF rpool = <<>>
              THEN /\ Shown("EmptyPool")
                   /\ UNCHANGED <<rpool, rhistory>>
              ELSE /\ \E idx \in 0..(Len(rpool) - 1) :
                        /\ result' = rpool[idx + 1]
                        /\ rpool' = erase(rpool, idx)
                        /\ rhistory' = Append(rhistory, rpool[idx + 1])
                   /\ msg' = "Drawn"
                   /\ winner' = <<>> /\ fout' = <<>> /\ foutOpen' = FALSE
       ELSE /\ Len(rhistory) < MaxHist
            /\ \E r \in pick_number(N) :
                 /\ result' = r
                 /\ rhistory' = Append(rhistory, r)
            /\ msg' = "Drawn"
            /\ winner' = <<>> /\ fout' = <<>> /\ foutOpen' = FALSE
            /\ UNCHANGED rpool
  /\ UNCHANGED <<pc, cinFail, N, noRepeat, listStore>>

\* op == 3.
RangeDraw ==
  /\ pc = "B" /\ ~cinFail
  /\ op' = 3
  /\ IF N <= 0
       THEN /\ Shown("NotConfigured")
            /\ UNCHANGED <<rpool, rhistory>>
       ELSE IF noRepeat
       THEN IF rpool = <<>>
              THEN /\ Shown("EmptyPool")
                   /\ UNCHANGED <<rpool, rhistory>>
              ELSE /\ \E idx \in 0..(Len(rpool) - 1) :
                        /\ result' = rpool[idx + 1]
                        /\ rpool' = erase(rpool, idx)
                        /\ rhistory' = Append(rhistory, rpool[idx + 1])
                   /\ msg' = "Drawn"
                   /\ winner' = <<>> /\ fout' = <<>> /\ foutOpen' = FALSE
       ELSE /\ Len(rhistory) < MaxHist
            /\ \E r \in pick_number(N) :
                 /\ result' = r
                 /\ rhistory' = Append(rhistory, r)
            /\ msg' = "Drawn"
            /\ winner' = <<>> /\ fout' = <<>> /\ foutOpen' = FALSE
            /\ UNCHANGED rpool
  /\ UNCHANGED <<pc, cinFail, N, noRepeat, listStore>>

\* op == 4: displays a sorted copy of history.
RangeView ==
  /\ pc = "B" /\ ~cinFail
  /\ op' = 4
  /\ Shown("Viewed")
  /\ UNCHANGED <<pc, cinFail, rangeStore, listStore>>

\* op == 5.
RangeReset ==
  /\ pc = "B" /\ ~cinFail
  /\ op' = 5
  /\ reset_pool(N)
  /\ Shown("Reset")
  /\ UNCHANGED <<pc, cinFail, N, noRepeat, listStore>>

\* RangeInvalid with a slip: an unknown op leaves the mode like op == 0.
RangeInvalid_returns ==
  /\ pc = "B" /\ ~cinFail
  /\ \E v \in Choices \ (0..5) : ReadOp(TRUE, v)
  /\ pc' = "top"
  /\ FreshRange
  /\ Shown("InvalidInput")
  /\ UNCHANGED listStore

\* Any other op.
RangeInvalid ==
  /\ pc = "B" /\ ~cinFail
  /\ \E v \in Choices \ (0..5) : ReadOp(TRUE, v)
  /\ Shown("InvalidInput")
  /\ UNCHANGED <<pc, rangeStore, listStore>>

\* ------------------------------------------------------------- system
Next ==
  \/ MainExit
  \/ EnterModeA
  \/ EnterModeB
  \/ MainInvalid
  \/ ListBack
  \/ \E rd \in ManualReads : ListManualAdd(rd)
  \/ \E rd \in FileReads : ListLoadFile(rd)
  \/ ListDraw
  \/ \E ok \in BOOLEAN, t \in 0..4 : ListView(ok, t)
  \/ ListReset
  \/ \E nameOk \in BOOLEAN, openOk \in BOOLEAN : ListExport(nameOk, openOk)
  \/ ListInvalid
  \/ RangeBack
  \/ \E ok \in BOOLEAN, n \in NValues : RangeSetN(ok, n)
  \/ RangeToggle
  \/ RangeDraw
  \/ RangeView
  \/ RangeReset
  \/ RangeInvalid

Spec == Init /\ [][Next]_vars

\* ------------------------------------------------------------- properties
Range(s) == { s[i] : i \in 1..Len(s) }
NoDup(s) == \A i, j \in 1..Len(s) : s[i] = s[j] => i = j

\* v with its i-th element (counted from 1) removed, the rest in order.
Without(v, i) == [j \in 1..(Len(v) - 1) |-> IF j < i THEN v[j] ELSE v[j + 1]]

\* C1: roster conservation.  In mode A, after any sequence of operations,
\* |pool| + |history| = |all|, pool and history are disjoint, and all has no
\* duplicates.
RosterConservation ==
  pc = "A" =>
    /\ Len(pool) + Len(history) = Len(all)
    /\ Range(pool) \cap Range(history) = {}
    /\ NoDup(all)

\* C2: no-repeat in mode A.  Between two resets the roster history never
\* holds the same name twice (reset empties history, so: never).
RosterNoRepeat == pc = "A" => NoDup(history)

\* C3: range conservation under no-repeat.  Whenever noRepeat is true, pool
\* and history are disjoint, their union is 1..N, and history holds no value
\* twice; with N = 0 both are empty.
RangeConservation ==
  (pc = "B" /\ noRepeat) =>
    /\ Range(rpool) \cap Range(rhistory) = {}
    /\ Range(rpool) \cup Range(rhistory) = 1..N
    /\ NoDup(rhistory)
    /\ (N = 0 => rpool = <<>> /\ rhistory = <<>>)

\* A no-repeat store with two of three numbers drawn.
RangeConservationWitness ==
  /\ pc = "B" /\ noRepeat /\ N = 3 /\ op = 3
  /\ Len(rhistory) = 2 /\ Len(rpool) = 1

\* C4: range repetition.  Whenever noRepeat is false, every element of
\* history lies in 1..N for the current N.
RangeRepetition ==
  (pc = "B" /\ ~noRepeat) =>
    \A i \in 1..Len(rhistory) : rhistory[i] \in 1..N

\* Repeats allowed, after N was set to 2, 2 was drawn without repeats (pool
\* is left as <<1>>), the flag was switched off and 2 was drawn again.
RangeRepetitionWitness ==
  /\ pc = "B" /\ ~noRepeat /\ N = 2
  /\ rhistory = <<2, 2>> /\ rpool = <<1>>

\* C5: draw atomicity and failure frame.  A roster draw on an empty pool, a
\* range draw with N = 0 and a no-repeat range draw on an empty pool change
\* nothing of the store; a successful draw removes one element from the pool
\* and appends that element to history, or, with noRepeat false, appends one
\* value of 1..N and leaves the pool alone.
ListDrawFrame ==
  (pc = "A" /\ op' = 3) =>
    IF pool = <<>>
      THEN msg' = "EmptyPool" /\ UNCHANGED listStore
      ELSE /\ \E i \in 1..Len(pool) :
                /\ pool' = Without(pool, i)
                /\ history' = Append(history, pool[i])
                /\ winner' = pool[i]
           /\ all' = all

RangeDrawFrame ==
  (pc = "B" /\ op' = 3) =>
    /\ N' = N /\ noRepeat' = noRepeat
    /\ IF N = 0
         THEN msg' = "NotConfigured" /\ UNCHANGED <<rpool, rhistory>>
         ELSE IF noRepeat
         THEN IF rpool = <<>>
                THEN msg' = "EmptyPool" /\ UNCHANGED <<rpool, rhistory>>
                ELSE \E i \in 1..Len(rpool) :
                       /\ rpool' = Without(rpool, i)
                       /\ rhistory' = Append(rhistory, rpool[i])
                       /\ result' = rpool[i]
         ELSE /\ \E r \in 1..N :
                   rhistory' = Append(rhistory, r) /\ result' = r
              /\ rpool' = rpool

DrawAtomicity == [][ListDrawFrame /\ RangeDrawFrame]_vars

\* A roster draw refused after two names were drawn and the pool ran empty.
DrawAtomicityWitness ==
  /\ pc = "A" /\ op = 3 /\ msg = "EmptyPool"
  /\ pool = <<>> /\ Len(history) = 2

\* C6: a set_N that reports DomainError leaves N = 0, pool and history empty
\* and noRepeat as it was; any other set_N leaves N > 0; while N = 0 every
\* draw reports NotConfigured and changes nothing; and N leaves 0 only by a
\* set_N that succeeds.
SetNDomainError ==
  [][ /\ (pc = "B" /\ op' = 1 /\ msg' = "DomainError") =>
           (N' = 0 /\ rpool' = <<>> /\ rhistory' = <<>> /\ noRepeat' = noRepeat)
      /\ (pc = "B" /\ op' = 1 /\ msg' # "DomainError") =>
           (N' > 0 /\ msg' = "SetN")
      /\ (pc = "B" /\ N = 0 /\ op' = 3) =>
           (msg' = "NotConfigured" /\ UNCHANGED rangeStore)
      /\ (pc = "B" /\ pc' = "B" /\ N = 0 /\ N' # 0) =>
           (op' = 1 /\ msg' = "SetN")
    ]_vars

\* A set_N refused while noRepeat was false, the flag still false.
SetNDomainErrorWitness ==
  /\ pc = "B" /\ op = 1 /\ msg = "DomainError" /\ ~noRepeat
  /\ N = 0 /\ rpool = <<>> /\ rhistory = <<>>

\* C7: toggling no-repeat from false to true is a full reset: afterwards
\* noRepeat is true, pool is 1..N in ascending order, history is empty.
ToggleOnResets ==
  [][ (pc = "B" /\ op' = 2 /\ ~noRepeat) =>
        /\ noRepeat'
        /\ rpool' = [i \in 1..N |-> i]
        /\ rhistory' = <<>>
        /\ N' = N
    ]_vars

\* The flag just switched on with N = 3.
ToggleOnResetsWitness ==
  /\ pc = "B" /\ op = 2 /\ msg = "Toggled" /\ noRepeat
  /\ N = 3 /\ rpool = <<1, 2, 3>> /\ rhistory = <<>>

\* C8 as stated: toggling no-repeat from true to false leaves history and N
\* as they were and empties pool.
ToggleOffDiscardsPool ==
  [][ (pc = "B" /\ op' = 2 /\ noRepeat) =>
        /\ ~noRepeat'
        /\ rhistory' = rhistory
        /\ N' = N
        /\ rpool' = <<>>
    ]_vars

\* C8 as amended: toggling no-repeat from true to false leaves history, N
\* and pool as they were.
ToggleOffKeepsPool ==
  [][ (pc = "B" /\ op' = 2 /\ noRepeat) =>
        /\ ~noRepeat'
        /\ rhistory' = rhistory
        /\ N' = N
        /\ rpool' = rpool
    ]_vars

\* The flag just switched off with 3 drawn and 1, 2 still in the pool.
ToggleOffKeepsPoolWitness ==
  /\ pc = "B" /\ op = 2 /\ msg = "Toggled" /\ ~noRepeat
  /\ N = 3 /\ rpool = <<1, 2>> /\ rhistory = <<3>>

\* The first two steps of the scenario "range set + no-repeat toggle": with
\* noRepeat true, set_N(3) gives pool <<1, 2, 3>>; a draw picking index 2
\* returns 3 and leaves pool <<1, 2>>.
ScenarioSetAndDraw ==
  /\ (pc = "B" /\ noRepeat /\ op' = 1 /\ N' = 3) =>
       (rpool' = <<1, 2, 3>> /\ rhistory' = <<>>)
  /\ (pc = "B" /\ noRepeat /\ N = 3 /\ rpool = <<1, 2, 3>> /\ op' = 3
        /\ result' = rpool[3]) =>
       (result' = 3 /\ rpool' = <<1, 2>> /\ rhistory' = <<3>>)

\* C9 as stated: after those steps, toggling no-repeat off resets history to
\* <<>>, and a following draw of 1 leaves history <<1>>.
ScenarioToggleResets ==
  [][ /\ ScenarioSetAndDraw
      /\ (pc = "B" /\ noRepeat /\ N = 3 /\ rpool = <<1, 2>>
            /\ rhistory = <<3>> /\ op' = 2) =>
           (~noRepeat' /\ rhistory' = <<>>)
      /\ (pc = "B" /\ ~noRepeat /\ N = 3 /\ rpool = <<1, 2>> /\ op' = 3
            /\ result' = 1) =>
           rhistory' = <<1>>
    ]_vars

\* C9 as amended: after those steps, toggling no-repeat off leaves history
\* <<3>>, and a following draw of 1 leaves history <<3, 1>>.
ScenarioToggleKeeps ==
  [][ /\ ScenarioSetAndDraw
      /\ (pc = "B" /\ noRepeat /\ N = 3 /\ rpool = <<1, 2>>
            /\ rhistory = <<3>> /\ op' = 2) =>
           (~noRepeat' /\ rhistory' = <<3>>)
      /\ (pc = "B" /\ ~noRepeat /\ N = 3 /\ rpool = <<1, 2>>
            /\ rhistory = <<3>> /\ op' = 3 /\ result' = 1) =>
           rhistory' = <<3, 1>>
    ]_vars

\* The end of the scenario: 3 drawn from the pool, then 1 with repeats
\* allowed.
ScenarioToggleKeepsWitness ==
  /\ pc = "B" /\ op = 3 /\ msg = "Drawn" /\ result = 1 /\ ~noRepeat
  /\ N = 3 /\ rpool = <<1, 2>> /\ rhistory = <<3, 1>>

\* C10: an export whose output file cannot be opened shows the user an error
\* (IoError), not a success.
ExportFailureReported ==
  (pc = "A" /\ op = 6 /\ ~foutOpen) => msg = "IoError"

\* C11: reset idempotence.  A roster reset gives pool = all and history
\* empty with all as it was; a range reset gives history empty, and pool
\* 1..N when noRepeat, with N and noRepeat as they were; in both modes a reset
\* that directly follows a reset changes nothing of the store.
ResetIdempotent ==
  [][ /\ (pc = "A" /\ op' = 5) =>
           (pool' = all /\ history' = <<>> /\ all' = all)
      /\ (pc = "A" /\ op = 5 /\ op' = 5) => UNCHANGED listStore
      /\ (pc = "B" /\ op' = 5) =>
           /\ rhistory' = <<>>
           /\ (noRepeat => rpool' = [i \in 1..N |-> i])
           /\ N' = N /\ noRepeat' = noRepeat
      /\ (pc = "B" /\ op = 5 /\ op' = 5) => UNCHANGED rangeStore
    ]_vars

\* A roster of three names just reset.
ResetIdempotentWitness ==
  /\ pc = "A" /\ op = 5 /\ msg = "Reset"
  /\ Len(all) = 3 /\ pool = all /\ history = <<>>

\* The lists of names one add can accept.
AcceptedLists ==
  { rd.accepted : rd \in ManualReads } \cup { rd.accepted : rd \in FileReads }

\* v is a prefix of w.
IsPrefix(v, w) == Len(v) <= Len(w) /\ SubSeq(w, 1, Len(v)) = v

\* C12: roster dedup.  Lines are trimmed, empty ones are not added, and only
\* the first occurrence of each name is kept, in insertion order: "  a ",
\* "a", "b", "a" on a fresh store give all = pool = <<a, b>>; and from every
\* reachable roster, for every list x, adding x twice gives the same all as
\* adding it once.
RosterDedup ==
  /\ LET x == << <<" ", "a", " ">>, <<"a">>, <<"\t", "b", "\r">>, <<"a">> >>
         ab == << <<"a">>, <<"b">> >>
     IN  /\ add_many(<<>>, manual_lines(x)) = ab
         /\ add_many(<<>>, file_lines(x)) = ab
  /\ pc = "A" =>
       \A x \in AcceptedLists :
         LET once == add_many(all, x)
         IN  /\ add_many(once, x) = once
             /\ NoDup(once)
             /\ IsPrefix(all, once)
             /\ Range(once) = Range(all) \cup Range(x)

\* A fresh store to which a, b (in that order, with repeats) were just added.
RosterDedupWitness ==
  /\ pc = "A" /\ op = 1 /\ msg = "Added"
  /\ all = << <<"a">>, <<"b">> >> /\ pool = all /\ history = <<>>

\* C13: malformed input at a menu prompt (the read of op fails) is reported
\* as an invalid option, the same menu is shown again and no store changes.
MalformedChoiceRejected ==
  [][ (~cinFail /\ cinFail' /\ op' = 0) =>
        /\ pc' = pc
        /\ msg' = "InvalidInput"
        /\ UNCHANGED <<listStore, rangeStore>>
    ]_vars

\* The kinds of message that report an error.
ErrorKinds ==
  {"InvalidInput", "DomainError", "NotConfigured", "EmptyPool", "IoError"}

\* C14: the menu state machine for well-formed input.  At the top 1 enters
\* mode A, 2 enters mode B, 0 exits, any other integer shows the top menu
\* again; in a mode 0 returns to the top and an integer outside the menu
\* shows the mode's menu again with the store unchanged; an error outcome
\* leaves the dispatcher in the menu it occurred in; the process ends only
\* from the top menu, on choice 0.
MenuStateMachine ==
  [][ ~cinFail' =>
        /\ pc = "top" =>
             pc' = CASE op' = 0 -> "exit" [] op' = 1 -> "A" [] op' = 2 -> "B"
                     [] OTHER -> "top"
        /\ (pc = "top" /\ op' \notin 0..2) => msg' = "InvalidInput"
        /\ pc = "A" => pc' = IF op' = 0 THEN "top" ELSE "A"
        /\ (pc = "A" /\ op' \notin 0..6) =>
             (msg' = "InvalidInput" /\ UNCHANGED listStore)
        /\ pc = "B" => pc' = IF op' = 0 THEN "top" ELSE "B"
        /\ (pc = "B" /\ op' \notin 0..5) =>
             (msg' = "InvalidInput" /\ UNCHANGED rangeStore)
        /\ msg' \in ErrorKinds => pc' = pc
        /\ pc' = "exit" => (pc = "top" /\ op' = 0)
    ]_vars

\* Back at the mode B menu after an integer that is not on it, N set.
MenuStateMachineWitness ==
  /\ pc = "B" /\ op = 7 /\ msg = "InvalidInput" /\ ~cinFail
  /\ N = 3 /\ Len(rhistory) = 1

\* The lines of text f, each ended by "\n"; text after the last "\n" would
\* be one more line.
RECURSIVE SplitLines(_, _)
SplitLines(f, cur) ==
  IF f = <<>> THEN (IF cur = <<>> THEN <<>> ELSE <<cur>>)
  ELSE IF Head(f) = "\n" THEN <<cur>> \o SplitLines(Tail(f), <<>>)
  ELSE SplitLines(Tail(f), Append(cur, Head(f)))

\* The number that the decimal digits d write, -1 if d is no such thing.
DigitValue(c) ==
  CASE c = "0" -> 0 [] c = "1" -> 1 [] c = "2" -> 2 [] c = "3" -> 3
    [] c = "4" -> 4 [] c = "5" -> 5 [] c = "6" -> 6 [] c = "7" -> 7
    [] c = "8" -> 8 [] c = "9" -> 9 [] OTHER -> 0 - 1

RECURSIVE ParseNat(_)
ParseNat(d) ==
  IF d = <<>> THEN 0 - 1
  ELSE LET last == DigitValue(d[Len(d)])
           front == SubSeq(d, 1, Len(d) - 1)
       IN  IF last < 0 THEN 0 - 1
           ELSE IF front = <<>> THEN last
           ELSE IF ParseNat(front) <= 0 THEN 0 - 1
           ELSE 10 * ParseNat(front) + last

\* f is the CSV of h: one line per element, in order, the i-th being the
\* decimal i, a comma and h[i]; f ends with the last line's "\n".
IsCsvOf(f, h) ==
  LET recs == SplitLines(f, <<>>)
  IN  /\ Len(recs) = Len(h)
      /\ (f # <<>> => f[Len(f)] = "\n")
      /\ \A i \in 1..Len(h) :
           \E c \in 1..Len(recs[i]) :
             /\ recs[i][c] = ","
             /\ ParseNat(SubSeq(recs[i], 1, c - 1)) = i
             /\ SubSeq(recs[i], c + 1, Len(recs[i])) = h[i]

\* C15: an export whose file opens writes one record per history element,
\* in draw order, as "<i>,<name>\n" with i counted from 1 (history a, b
\* gives exactly "1,a\n2,b\n"; an empty history gives an empty file), reports
\* success, and changes nothing of all, pool and history.
ExportWritesHistory ==
  [][ /\ csv_rows(<< <<"a">>, <<"b">> >>)
           = <<"1", ",", "a", "\n", "2", ",", "b", "\n">>
      /\ (pc = "A" /\ op' = 6) =>
           /\ UNCHANGED listStore
           /\ msg' = "Exported"
           /\ foutOpen' => IsCsvOf(fout', history)
           /\ (foutOpen' /\ history = <<>>) => fout' = <<>>
    ]_vars

\* An export of the history a, b.
ExportWritesHistoryWitness ==
  /\ pc = "A" /\ op = 6 /\ foutOpen /\ msg = "Exported"
  /\ history = << <<"a">>, <<"b">> >>
  /\ fout = <<"1", ",", "a", "\n", "2", ",", "b", "\n">>

\* p is a subsequence of a: its elements appear in a, in the same order.
RECURSIVE IsSubseq(_, _)
IsSubseq(p, a) ==
  IF p = <<>> THEN TRUE
  ELSE IF a = <<>> THEN FALSE
  ELSE IF Head(p) = Head(a) THEN IsSubseq(Tail(p), Tail(a))
  ELSE IsSubseq(p, Tail(a))

\* The roster states that draws alone lead to from pool = all, history
\* empty: pool is what is left of all, in order, and history holds the rest,
\* each name once.
DrawnFromFull ==
  /\ NoDup(all)
  /\ IsSubseq(pool, all)
  /\ NoDup(history)
  /\ Range(pool) \cap Range(history) = {}
  /\ Range(pool) \cup Range(history) = Range(all)

\* C16: roster draw to exhaustion.  From a store of k distinct names with
\* pool = all and history empty, and with draws only, a draw succeeds while
\* fewer than k names are drawn: it returns some pool[idx], removes it with
\* the rest of pool in order and appends it to history; once k are drawn pool
\* is empty, history is a permutation of all and a draw reports EmptyPool
\* and changes nothing; a reset gives pool = all and history empty.
DrawToExhaustion ==
  [][ /\ (pc = "A" /\ DrawnFromFull /\ op' = 3) =>
           IF Len(history) < Len(all)
             THEN /\ msg' = "Drawn"
                  /\ \E i \in 1..Len(pool) :
                       /\ winner' = pool[i]
                       /\ pool' = Without(pool, i)
                       /\ history' = Append(history, pool[i])
                  /\ DrawnFromFull'
             ELSE /\ msg' = "EmptyPool"
                  /\ pool = <<>>
                  /\ Len(history) = Len(all) /\ Range(history) = Range(all)
                  /\ UNCHANGED listStore
      /\ (pc = "A" /\ DrawnFromFull /\ op' = 5) =>
           (pool' = all /\ history' = <<>> /\ all' = all)
    ]_vars

\* The fourth draw from a roster of three names, refused.
DrawToExhaustionWitness ==
  /\ pc = "A" /\ op = 3 /\ msg = "EmptyPool"
  /\ Len(all) = 3 /\ pool = <<>> /\ Len(history) = 3 /\ NoDup(history)

\* C17: roster pool order.  In mode A pool is always a subsequence of all.
PoolSubsequence == pc = "A" => IsSubseq(pool, all)

\* C18: store lifetime.  Every entry into mode A from the top menu starts
\* with all, pool and history empty, and every entry into mode B with N = 0,
\* noRepeat true, pool and history empty, whatever earlier sessions did.
StoreLifetime ==
  [][ /\ (pc = "top" /\ pc' = "A") =>
           (all' = <<>> /\ pool' = <<>> /\ history' = <<>>)
      /\ (pc = "top" /\ pc' = "B") =>
           (N' = 0 /\ noRepeat' /\ rpool' = <<>> /\ rhistory' = <<>>)
    ]_vars

\* Mode A just entered.
StoreLifetimeWitness ==
  /\ pc = "A" /\ op = 1 /\ msg = "None"
  /\ all = <<>> /\ pool = <<>> /\ history = <<>>

\* C19: all is append-only within a session.  Every operation of mode A
\* leaves the old all a prefix of the new one, and draw, view, reset, export
\* and a file load that fails leave all as it was.
AllAppendOnly ==
  [][ (pc = "A" /\ pc' = "A") =>
        /\ IsPrefix(all, all')
        /\ op' \notin {1, 2} => all' = all
        /\ msg' = "IoError" => all' = all
    ]_vars

\* A third name just added after one of the first two was drawn.
AllAppendOnlyWitness ==
  /\ pc = "A" /\ op = 1 /\ msg = "Added"
  /\ Len(all) = 3 /\ Len(history) = 1 /\ Len(pool) = 2

====
